---- MODULE Spec2Model ----
(***************************************************************************)
(* Strategy execution and provenance-anchoring pipeline of the yield       *)
(* agent: the condition evaluator, the allocation calculator, the batched  *)
(* vault transaction, the IPFS upload, the on-chain reference anchor and    *)
(* the EXECUTE_YIELD_STRATEGY handler that sequences them.                  *)
(*                                                                         *)
(* JavaScript numbers (rates, thresholds, percentages) are represented in  *)
(* tenths: 65 stands for 6.5, 700 for 70.  NaN is a value apart from every  *)
(* number of the model.                                                    *)
(* bigint values (balances, amounts) are plain integers.  A string is a    *)
(* sequence of one-character strings.                                      *)
(***************************************************************************)
EXTENDS Integers, Sequences, FiniteSets, TLC

NaN == -1000000

(***************************************************************************)
(* Character classes of the condition regular expression                   *)
(*   /APY\s*([><=]+)\s*([\d.]+)%?/i                                        *)
(***************************************************************************)
Digits == {"0", "1", "2", "3", "4", "5", "6", "7", "8", "9"}

DigitValue(c) ==
    CASE c = "0" -> 0 [] c = "1" -> 1 [] c = "2" -> 2 [] c = "3" -> 3
      [] c = "4" -> 4 [] c = "5" -> 5 [] c = "6" -> 6 [] c = "7" -> 7
      [] c = "8" -> 8 [] c = "9" -> 9

IsSpace(c) == c \in {" ", "\t"}

IsOpChar(c) == c \in {">", "<", "="}

IsNumChar(c) == c \in Digits \cup {"."}

\* the /i flag: letters compare without regard to case
ToLower(c) ==
    CASE c = "A" -> "a" [] c = "P" -> "p" [] c = "Y" -> "y" [] OTHER -> c

\* the literal APY at position i of s
LiteralAt(s, i) ==
    /\ i + 2 <= Len(s)
    /\ ToLower(s[i]) = "a"
    /\ ToLower(s[i + 1]) = "p"
    /\ ToLower(s[i + 2]) = "y"

\* greedy repetition: the index just after the longest run of characters of
\* one class that starts at position i
RECURSIVE SpaceRun(_, _)
SpaceRun(s, i) ==
    IF i <= Len(s) /\ IsSpace(s[i]) THEN SpaceRun(s, i + 1) ELSE i

RECURSIVE OpRun(_, _)
OpRun(s, i) ==
    IF i <= Len(s) /\ IsOpChar(s[i]) THEN OpRun(s, i + 1) ELSE i

RECURSIVE NumRun(_, _)
NumRun(s, i) ==
    IF i <= Len(s) /\ IsNumChar(s[i]) THEN NumRun(s, i + 1) ELSE i

NoMatch == [matched |-> FALSE, operator |-> << >>, number |-> << >>]

\* an attempt of the expression at start position i.  Each repetition is
\* followed by a class disjoint from its own, so the greedy run is the only
\* length at which the rest can match; the optional % never fails.
MatchAt(s, i) ==
    IF ~LiteralAt(s, i) THEN NoMatch
    ELSE LET b == SpaceRun(s, i + 3)
             c == OpRun(s, b)
             d == SpaceRun(s, c)
             e == NumRun(s, d)
         IN  IF c > b /\ e > d
             THEN [matched |-> TRUE,
                   operator |-> SubSeq(s, b, c - 1),
                   number |-> SubSeq(s, d, e - 1)]
             ELSE NoMatch

\* condition.match(...): the regular expression is not anchored, the leftmost
\* start position that matches wins
RECURSIVE MatchFrom(_, _)
MatchFrom(s, i) ==
    IF i > Len(s) THEN NoMatch
    ELSE IF MatchAt(s, i).matched THEN MatchAt(s, i)
    ELSE MatchFrom(s, i + 1)

ConditionMatch(s) == MatchFrom(s, 1)

(***************************************************************************)
(* parseFloat on a string of digits and dots: the longest prefix that is a *)
(* decimal literal (digits, at most one dot, at least one digit); NaN when *)
(* that prefix holds no digit.  Values are in tenths, so the fraction      *)
(* keeps its first digit.                                                  *)
(***************************************************************************)
RECURSIVE DigitRun(_, _)
DigitRun(s, i) ==
    IF i <= Len(s) /\ s[i] \in Digits THEN DigitRun(s, i + 1) ELSE i

RECURSIVE DigitsValue(_, _, _)
DigitsValue(s, i, j) ==
    IF j < i THEN 0 ELSE 10 * DigitsValue(s, i, j - 1) + DigitValue(s[j])

parseFloat(s) ==
    LET intEnd == DigitRun(s, 1)
        hasDot == intEnd <= Len(s) /\ s[intEnd] = "."
        fracEnd == IF hasDot THEN DigitRun(s, intEnd + 1) ELSE intEnd
        intDigits == intEnd - 1
        fracDigits == IF hasDot THEN fracEnd - intEnd - 1 ELSE 0
    IN  IF intDigits + fracDigits = 0 THEN NaN
        ELSE 10 * DigitsValue(s, 1, intEnd - 1)
             + (IF fracDigits > 0 THEN DigitValue(s[intEnd + 1]) ELSE 0)

\* the comparison operators of JavaScript numbers: every comparison with NaN
\* is false
NumGT(a, b) == a # NaN /\ b # NaN /\ a > b
NumGE(a, b) == a # NaN /\ b # NaN /\ a >= b
NumLT(a, b) == a # NaN /\ b # NaN /\ a < b
NumLE(a, b) == a # NaN /\ b # NaN /\ a <= b
NumEQ(a, b) == a # NaN /\ b # NaN /\ a = b

\* faulty variant: >= compares as >
CompareStrict(operator, currentAPY, threshold) ==
    CASE operator = <<">">> -> NumGT(currentAPY, threshold)
      [] operator = <<">", "=">> -> NumGT(currentAPY, threshold)
      [] operator = <<"<">> -> NumLT(currentAPY, threshold)
      [] operator = <<"<", "=">> -> NumLE(currentAPY, threshold)
      [] operator = <<"=", "=">> -> NumEQ(currentAPY, threshold)
      [] operator = <<"=">> -> NumEQ(currentAPY, threshold)
      [] OTHER -> FALSE

\* the switch on the operator text
Compare(operator, currentAPY, threshold) ==
    CASE operator = <<">">> -> NumGT(currentAPY, threshold)
      [] operator = <<">", "=">> -> NumGE(currentAPY, threshold)
      [] operator = <<"<">> -> NumLT(currentAPY, threshold)
      [] operator = <<"<", "=">> -> NumLE(currentAPY, threshold)
      [] operator = <<"=", "=">> -> NumEQ(currentAPY, threshold)
      [] operator = <<"=">> -> NumEQ(currentAPY, threshold)
      [] OTHER -> FALSE

shouldInvestInLendingProtocol(condition, currentAPY) ==
    LET match == ConditionMatch(condition)
    IN  IF ~match.matched THEN FALSE
        ELSE Compare(match.operator, currentAPY, parseFloat(match.number))


(***************************************************************************)
(* Values of the domain                                                    *)
(***************************************************************************)
\* condition expressions, one character per element
CondAbove6 == <<"A", "P", "Y", " ", ">", " ", "6", "%">>
CondAtLeast65 == <<"a", "p", "y", ">", "=", "6", ".", "5">>
CondArrow == <<"A", "P", "Y", " ", "=", ">", " ", "6", "%">>
CondProse == <<"h", "i", "g", "h", " ", "A", "P", "Y">>
CondTwoDots == <<"A", "P", "Y", " ", ">", " ", "6", ".", "5", ".", "2", "%">>

Conditions == {CondAbove6, CondAtLeast65, CondArrow, CondProse, CondTwoDots}

\* observed rates, in tenths: 5.0 (the default of the configuration), 7.2,
\* and the NaN that parseFloat gives for an unreadable setting
Rates == {50, 72, NaN}

\* assetAllocation records: zod's record(string, number) neither requires the
\* lendingProtocol key nor bounds or rounds its number (percentages in tenths)
Allocations ==
    {[lendingProtocol |-> 700], [lendingProtocol |-> 1000],
     [lendingProtocol |-> 0],
     [lendingProtocol |-> -50], [lendingProtocol |-> 125],
     [lendingProtocol |-> 1500], [stablecoin |-> 700]}

\* balances of the vault (a uint256)
Balances == {0, 1, 999, 1000, 1000000}

VaultAddress == "0xVault"
PoolAddress == "0xPool"
TokenAddress == "0xToken"

Invocations == {1, 2}

\* message objects handed to the handlers; m1 and m2 are two deliveries of
\* the same message, m3 is another message, m4 is a message without id
Messages == {"m1", "m2", "m3", "m4"}

MessageId(m) ==
    IF m = "m3" THEN "id-B" ELSE IF m = "m4" THEN "" ELSE "id-A"

EXECUTE == "EXECUTE_YIELD_STRATEGY"

PARSE == "PARSE_YIELD_STRATEGY"


VARIABLES
    networkConfig,      \* getNetworkConfig(): addresses ("" when unset), rate
    privateKey,         \* config.wallet.privateKey ("" when unset)
    pinataJwt,          \* process.env.PINATA_JWT ("" when unset)
    yieldStrategies,    \* rows of the yieldStrategies table, most recent first
    totalAssets,        \* what the vault contract answers to totalAssets()
    processed,          \* message.content.processed of each message object
    message,            \* the message object each handler invocation is given
    active,             \* the invocations the host starts
    inv,                \* local state of each handler invocation
    evalIn,             \* evaluator harness: the pieces of the expression
    evalRate,           \* evaluator harness: the current rate
    evalOut,            \* evaluator harness: <<result>> once evaluated
    processedMessageIds,\* global._processedMessageIds: the ids marked
    sentResponses,      \* global._sentResponses: the hashes marked
    parse,              \* local state of each parse handler invocation
    validOut            \* validator harness: <<message and both results>>

vars ==
    <<networkConfig, privateKey, pinataJwt, yieldStrategies, totalAssets,
      processed, message, active, inv, evalIn, evalRate, evalOut,
      processedMessageIds, sentResponses, parse, validOut>>

configVars ==
    <<networkConfig, privateKey, pinataJwt, yieldStrategies, totalAssets>>

evalVars == <<evalIn, evalRate, evalOut>>

parseVars == <<processedMessageIds, sentResponses, parse, validOut>>

(***************************************************************************)
(* Local state of one invocation of executeStrategyAction.handler.         *)
(* Optional values are sequences of length 0 or 1.  calls lists the calls  *)
(* made to external collaborators, in order.                               *)
(***************************************************************************)
IdleInvocation ==
    [pc |-> "idle",
     strategy |-> << >>,          \* the validated strategy
     shouldInvest |-> << >>,      \* result of the condition evaluator
     totalAmount |-> << >>,       \* values read from vault.totalAssets()
     txs |-> << >>,               \* batches passed to vault.execute
     receipt |-> << >>,           \* value returned by executeFullStrategy
     allocError |-> << >>,        \* error thrown by executeFullStrategy
     ipfsResult |-> << >>,        \* value returned by uploadToIPFS
     publishError |-> << >>,      \* error thrown by uploadToIPFS
     anchorTxs |-> << >>,         \* setStrategyReference transactions
     anchorReceipt |-> << >>,
     anchorError |-> << >>,
     steps |-> << >>,             \* entries pushed on simulatedExecutionSteps
     calls |-> << >>,
     replies |-> << >>,           \* what each awaited call returned, in order
     responseContent |-> << >>,   \* the object built at lines 459-476
     pending |-> "",              \* content of the callback in flight
     responses |-> << >>,         \* contents delivered through the callback
     threw |-> FALSE]             \* the handler's promise was rejected

Call(r, name) == [r EXCEPT !.calls = Append(@, name)]

Push(r, step) == [r EXCEPT !.steps = Append(@, step)]

\* the awaited call, the last one of calls, resolves (ok) or rejects
Reply(r, ok, value) ==
    [r EXCEPT !.replies = Append(@, [call |-> r.calls[Len(r.calls)],
                                     ok |-> ok, value |-> value])]

(***************************************************************************)
(* End of the handler: execution record, callback, outer catch             *)
(***************************************************************************)
\* await callback(content) inside the try block (lines 357, 387, 496)
SendCallback(r, content) ==
    [Call(r, "callback") EXCEPT !.pc = "callback", !.pending = content]

\* faulty variant: the outer catch returns without calling back
OuterCatchSilent(r) == [r EXCEPT !.pc = "done"]

\* the outer catch (lines 499-511): await callback(errorContent)
OuterCatch(r) ==
    [Call(r, "callback") EXCEPT !.pc = "catchCallback",
                                 !.pending = "errorContent"]

\* faulty variant: the promise awaited at the delay never resolves
StartDelayNeverResolves(r) == [r EXCEPT !.pc = "stalled"]

\* lines 453-455: await the 1500 ms timer
StartDelay(r) == [r EXCEPT !.pc = "delay"]

\* lines 459-476: the text lists the steps, and the IPFS section and ipfsData
\* are there when ipfsResult is not null
ResponseContent(r) ==
    [steps |-> r.steps, ipfsData |-> r.ipfsResult,
     executedStrategy |-> r.strategy]

\* lines 457-490: build responseContent, then
\* await runtime.createMemory(..., 'strategyExecutions')
StoreExecution(r) ==
    [Call(r, "createMemory") EXCEPT !.pc = "createMemory",
                                     !.responseContent = <<ResponseContent(r)>>]

(***************************************************************************)
(* setStrategyReference (contractInteraction.ts)                           *)
(***************************************************************************)
\* faulty variant: the failed anchoring withdraws the uploaded document
AnchorFailedRetracts(r, error) ==
    StartDelay(Push([Call(r, "unpin") EXCEPT !.anchorError = <<error>>,
                                             !.ipfsResult = << >>],
                    [step |-> "anchorFailed", detail |-> error]))

AnchorFailed(r, error) ==
    StartDelay(Push([r EXCEPT !.anchorError = <<error>>],
                    [step |-> "anchorFailed", detail |-> error]))

\* setStrategyReference(1, gatewayUrl) up to the submission of the transaction
setStrategyReference(r, referenceData) ==
    IF privateKey = "" THEN AnchorFailed(r, "WalletKeyNotConfigured")
    ELSE IF networkConfig.strategyVaultAddress = ""
    THEN AnchorFailed(r, "VaultNotConfigured")
    ELSE [Call(r, "setStrategyReference") EXCEPT
              !.pc = "anchorSubmit",
              !.anchorTxs = Append(@, [to |-> networkConfig.strategyVaultAddress,
                                        strategyId |-> 1,
                                        referenceData |-> referenceData])]

(***************************************************************************)
(* uploadToIPFS (ipfsUpload.ts)                                            *)
(***************************************************************************)
\* the catch of lines 447-451: ipfsResult = null, continue
PublishFailed(r, error) ==
    StartDelay([r EXCEPT !.ipfsResult = << >>, !.publishError = <<error>>])

\* faulty variant: the request is sent without looking at PINATA_JWT
uploadToIPFSNoCredentialCheck(r) == [Call(r, "fetch") EXCEPT !.pc = "fetch"]

\* uploadToIPFS(strategy) up to the fetch
uploadToIPFS(r) ==
    IF pinataJwt = "" THEN PublishFailed(r, "PinataJwtNotSet")
    ELSE [Call(r, "fetch") EXCEPT !.pc = "fetch"]

IpfsResult(cid) ==
    [cid |-> cid,
     gatewayUrl |-> <<"https://", "ipfs.io", "/ipfs/", cid>>,
     pinataUrl |-> <<"https://", "gateway.pinata.cloud", "/ipfs/", cid>>]

\* faulty variant: the reference is set whatever cid came back
PublishedAlwaysAnchors(r, cid) ==
    setStrategyReference([r EXCEPT !.ipfsResult = <<IpfsResult(cid)>>],
                         IpfsResult(cid).gatewayUrl)

\* lines 428-446: after a successful upload, anchor when a cid came back
Published(r, cid) ==
    LET r1 == [r EXCEPT !.ipfsResult = <<IpfsResult(cid)>>]
    IN  IF cid # "" THEN setStrategyReference(r1, IpfsResult(cid).gatewayUrl)
        ELSE StartDelay(r1)

(***************************************************************************)
(* Result of executeFullStrategy as the handler sees it (lines 408-421)    *)
(***************************************************************************)
\* receipt truthy: "executed on-chain"
AllocationExecuted(r, rcpt) ==
    uploadToIPFS(Push([r EXCEPT !.receipt = <<rcpt>>],
                      [step |-> "executed", detail |-> rcpt]))

\* faulty variant: a skipped allocation goes straight to the response
AllocationSkippedEnds(r) ==
    StartDelay(Push([r EXCEPT !.receipt = <<"null">>],
                    [step |-> "noAction", detail |-> ""]))

\* receipt null: "No action taken"
AllocationSkipped(r) ==
    uploadToIPFS(Push([r EXCEPT !.receipt = <<"null">>],
                      [step |-> "noAction", detail |-> ""]))

\* faulty variant: the failure is recorded and the upload is left out
AllocationFailedAborts(r, error) ==
    StartDelay(Push([r EXCEPT !.allocError = <<error>>],
                    [step |-> "executeFailed", detail |-> error]))

\* the catch of lines 418-421: the error is pushed on the steps
AllocationFailed(r, error) ==
    uploadToIPFS(Push([r EXCEPT !.allocError = <<error>>],
                      [step |-> "executeFailed", detail |-> error]))


(***************************************************************************)
(* executeLendingAllocation (executeStrategy.ts)                           *)
(***************************************************************************)
\* strategy.strategy.assetAllocation.lendingProtocol || 0
LendingPercentage(assetAllocation) ==
    IF "lendingProtocol" \in DOMAIN assetAllocation
    THEN assetAllocation.lendingProtocol
    ELSE 0

\* BigInt(x) throws a RangeError unless x is an integer
IsInteger(x) == x % 10 = 0

BigInt(x) == x \div 10

\* faulty variant: the quotient is rounded to the nearest unit
AmountRounded(totalAmount, lendingPercentage) ==
    (totalAmount * BigInt(lendingPercentage) + 50) \div 100

\* faulty variant: the division by 100 is left out
AmountUnscaled(totalAmount, lendingPercentage) ==
    totalAmount * BigInt(lendingPercentage)

\* ethers.toBigInt(totalAmount) * BigInt(lendingPercentage) / 100n
AmountToDeposit(totalAmount, lendingPercentage) ==
    (totalAmount * BigInt(lendingPercentage)) \div 100

\* token.interface.encodeFunctionData("approve", [lendingPoolAddress, amount])
ApproveCalldata(spender, amount) ==
    [function |-> "approve", args |-> <<spender, amount>>]

\* lendingPool.interface.encodeFunctionData("deposit", [amount])
DepositCalldata(amount) ==
    [function |-> "deposit", args |-> <<amount>>]

\* faulty variant: the deposit is placed before the approval
ExecuteBatchSwapped(tokenAddress, lendingPoolAddress, amountToDeposit) ==
    [contracts |-> <<lendingPoolAddress, tokenAddress>>,
     data |-> <<DepositCalldata(amountToDeposit),
                ApproveCalldata(lendingPoolAddress, amountToDeposit)>>,
     msgValues |-> <<0, 0>>]

\* the parameters of vault.execute(contracts, data, msgValues)
ExecuteBatch(tokenAddress, lendingPoolAddress, amountToDeposit) ==
    [contracts |-> <<tokenAddress, lendingPoolAddress>>,
     data |-> <<ApproveCalldata(lendingPoolAddress, amountToDeposit),
                DepositCalldata(amountToDeposit)>>,
     msgValues |-> <<0, 0>>]

\* faulty variant: the percentage check lets zero through (< instead of <=)
executeLendingAllocationZeroPasses(r, lendingPoolAddress, totalAmount) ==
    LET lendingPercentage == LendingPercentage(r.strategy[1].assetAllocation)
        tokenAddress == networkConfig.tokenAddress
    IN  IF privateKey = "" THEN AllocationFailed(r, "WalletKeyNotConfigured")
        ELSE IF lendingPercentage < 0 THEN AllocationFailed(r, "NoAllocation")
        ELSE IF ~IsInteger(lendingPercentage)
        THEN AllocationFailed(r, "RangeError")
        ELSE IF tokenAddress = ""
        THEN AllocationFailed(r, "TokenNotConfigured")
        ELSE [Call(r, "execute") EXCEPT
                  !.pc = "execute",
                  !.txs = Append(@, ExecuteBatch(tokenAddress, lendingPoolAddress,
                                     AmountToDeposit(totalAmount,
                                                     lendingPercentage)))]

\* executeLendingAllocation up to the call of vault.execute
executeLendingAllocation(r, lendingPoolAddress, totalAmount) ==
    LET lendingPercentage == LendingPercentage(r.strategy[1].assetAllocation)
        tokenAddress == networkConfig.tokenAddress
    IN  IF privateKey = "" THEN AllocationFailed(r, "WalletKeyNotConfigured")
        ELSE IF lendingPercentage <= 0 THEN AllocationFailed(r, "NoAllocation")
        ELSE IF ~IsInteger(lendingPercentage)
        THEN AllocationFailed(r, "RangeError")
        ELSE IF tokenAddress = ""
        THEN AllocationFailed(r, "TokenNotConfigured")
        ELSE [Call(r, "execute") EXCEPT
                  !.pc = "execute",
                  !.txs = Append(@, ExecuteBatch(tokenAddress, lendingPoolAddress,
                                     AmountToDeposit(totalAmount,
                                                     lendingPercentage)))]

\* faulty variant: only a negative balance is skipped (< instead of <=)
BalanceReadZeroPasses(r, totalAmount) ==
    LET r1 == [r EXCEPT !.totalAmount = Append(@, totalAmount)]
    IN  IF totalAmount < 0 THEN AllocationSkipped(r1)
        ELSE executeLendingAllocation(r1, networkConfig.lendingPoolAddress,
                                      totalAmount)

\* lines 212-218 of executeFullStrategy: the balance has been read
BalanceRead(r, totalAmount) ==
    LET r1 == [r EXCEPT !.totalAmount = Append(@, totalAmount)]
    IN  IF totalAmount <= 0 THEN AllocationSkipped(r1)
        ELSE executeLendingAllocation(r1, networkConfig.lendingPoolAddress,
                                      totalAmount)

\* faulty variant: the result of the condition is not tested
executeFullStrategyUngated(r) ==
    IF networkConfig.strategyVaultAddress = ""
    THEN AllocationFailed(r, "VaultNotConfigured")
    ELSE IF networkConfig.lendingPoolAddress = ""
    THEN AllocationFailed(r, "PoolNotConfigured")
    ELSE LET shouldInvest ==
                 shouldInvestInLendingProtocol(
                     r.strategy[1].investmentCondition, networkConfig.currentAPY)
             r1 == [r EXCEPT !.shouldInvest = <<shouldInvest>>]
         IN  [Call(r1, "totalAssets") EXCEPT !.pc = "totalAssets"]

\* faulty variant: the addresses are not checked
executeFullStrategyUnchecked(r) ==
    LET shouldInvest ==
            shouldInvestInLendingProtocol(
                r.strategy[1].investmentCondition, networkConfig.currentAPY)
        r1 == [r EXCEPT !.shouldInvest = <<shouldInvest>>]
    IN  IF ~shouldInvest THEN AllocationSkipped(r1)
        ELSE [Call(r1, "totalAssets") EXCEPT !.pc = "totalAssets"]

\* lines 181-210 of executeFullStrategy: up to the read of the balance
executeFullStrategy(r) ==
    IF networkConfig.strategyVaultAddress = ""
    THEN AllocationFailed(r, "VaultNotConfigured")
    ELSE IF networkConfig.lendingPoolAddress = ""
    THEN AllocationFailed(r, "PoolNotConfigured")
    ELSE LET shouldInvest ==
                 shouldInvestInLendingProtocol(
                     r.strategy[1].investmentCondition, networkConfig.currentAPY)
             r1 == [r EXCEPT !.shouldInvest = <<shouldInvest>>]
         IN  IF ~shouldInvest THEN AllocationSkipped(r1)
             ELSE [Call(r1, "totalAssets") EXCEPT !.pc = "totalAssets"]

\* faulty variant: a failed transaction is submitted once more
ExecuteFailedRetry(r, error) ==
    IF Len(r.txs) < 2
    THEN [Call(r, "execute") EXCEPT !.pc = "execute",
                                     !.txs = Append(@, r.txs[1])]
    ELSE AllocationFailed(r, error)

\* a failed submission or a revert of vault.execute: the error is rethrown
\* (lines 122-125, 219-222) and reaches the handler's catch
ExecuteFailed(r, error) == AllocationFailed(r, error)

(***************************************************************************)
(* executeStrategyAction.handler, one action per suspension point          *)
(***************************************************************************)
Step(i, r) == inv' = [inv EXCEPT ![i] = r]

\* lines 330-348: the guard on message.content.processed, the mark, and the
\* call of runtime.getMemories
ExecuteHandler(i) ==
    /\ i \in active
    /\ inv[i].pc = "idle"
    /\ IF processed[message[i]] = EXECUTE
       THEN /\ Step(i, [inv[i] EXCEPT !.pc = "done"])
            /\ UNCHANGED processed
       ELSE /\ processed' = [processed EXCEPT ![message[i]] = EXECUTE]
            /\ Step(i, [Call(inv[i], "getMemories") EXCEPT !.pc = "getMemories"])
    /\ UNCHANGED <<configVars, message, active, evalVars, parseVars>>

\* faulty variant: the stored row is used without StrategySchema.parse
GetMemoriesReturnNoValidation(i) ==
    /\ inv[i].pc = "getMemories"
    /\ \E ok \in BOOLEAN :
          LET r == Reply(inv[i], ok, IF ok THEN "rows" ELSE "QueryFailed")
          IN  Step(i, IF ~ok THEN OuterCatch(r)
                      ELSE IF yieldStrategies = << >>
                      THEN SendCallback(r, "noStrategyContent")
                      ELSE executeFullStrategy(
                               [r EXCEPT !.strategy = <<yieldStrategies[1]>>]))
    /\ UNCHANGED <<configVars, processed, message, active, evalVars, parseVars>>

\* lines 350-411: no row, a row that fails the schema, or a strategy, with
\* which executeFullStrategy starts; a rejected query reaches the outer catch
GetMemoriesReturn(i) ==
    /\ inv[i].pc = "getMemories"
    /\ \E ok \in BOOLEAN :
          LET r == Reply(inv[i], ok, IF ok THEN "rows" ELSE "QueryFailed")
          IN  Step(i, IF ~ok THEN OuterCatch(r)
                      ELSE IF yieldStrategies = << >>
                      THEN SendCallback(r, "noStrategyContent")
                      ELSE IF ~yieldStrategies[1].schemaValid
                      THEN SendCallback(r, "errorContent")
                      ELSE executeFullStrategy(
                               [r EXCEPT !.strategy = <<yieldStrategies[1]>>]))
    /\ UNCHANGED <<configVars, processed, message, active, evalVars, parseVars>>

\* faulty variant: the balance is read only while no other invocation has an
\* allocation in progress
TotalAssetsReturnExclusive(i) ==
    /\ inv[i].pc = "totalAssets"
    /\ \A j \in Invocations \ {i} :
           inv[j].pc \notin {"totalAssets", "execute", "wait"}
    /\ \/ Step(i, BalanceRead(Reply(inv[i], TRUE, "balance"), totalAssets))
       \/ Step(i, AllocationFailed(Reply(inv[i], FALSE, "RpcError"), "RpcError"))
    /\ UNCHANGED <<configVars, processed, message, active, evalVars, parseVars>>

\* faulty variant: a balance read earlier by another invocation is reused
TotalAssetsReturnCached(i) ==
    /\ inv[i].pc = "totalAssets"
    /\ \/ LET cached == {j \in Invocations \ {i} : inv[j].totalAmount # << >>}
          IN  Step(i, BalanceRead(Reply(inv[i], TRUE, "balance"),
                                  IF cached = {} THEN totalAssets
                                  ELSE inv[CHOOSE j \in cached : TRUE].totalAmount[1]))
       \/ Step(i, AllocationFailed(Reply(inv[i], FALSE, "RpcError"), "RpcError"))
    /\ UNCHANGED <<configVars, processed, message, active, evalVars, parseVars>>

\* vault.totalAssets() returns a balance or fails
TotalAssetsReturn(i) ==
    /\ inv[i].pc = "totalAssets"
    /\ \/ Step(i, BalanceRead(Reply(inv[i], TRUE, "balance"), totalAssets))
       \/ Step(i, AllocationFailed(Reply(inv[i], FALSE, "RpcError"), "RpcError"))
    /\ UNCHANGED <<configVars, processed, message, active, evalVars, parseVars>>

\* faulty variant: the upload starts while the confirmation is awaited
ExecuteReturnNoAwait(i) ==
    /\ inv[i].pc = "execute"
    /\ \/ Step(i, uploadToIPFS(Call(Reply(inv[i], TRUE, "tx"), "wait")))
       \/ Step(i, ExecuteFailed(Reply(inv[i], FALSE, "SubmitFailed"),
                                "SubmitFailed"))
    /\ UNCHANGED <<configVars, processed, message, active, evalVars, parseVars>>

\* vault.execute(...) returns the sent transaction or fails
ExecuteReturn(i) ==
    /\ inv[i].pc = "execute"
    /\ \/ Step(i, [Call(Reply(inv[i], TRUE, "tx"), "wait") EXCEPT !.pc = "wait"])
       \/ Step(i, ExecuteFailed(Reply(inv[i], FALSE, "SubmitFailed"),
                                "SubmitFailed"))
    /\ UNCHANGED <<configVars, processed, message, active, evalVars, parseVars>>

\* tx.wait() returns the receipt or fails with the revert
WaitReturn(i) ==
    /\ inv[i].pc = "wait"
    /\ \/ Step(i, AllocationExecuted(Reply(inv[i], TRUE, "receipt"), "receipt"))
       \/ Step(i, ExecuteFailed(Reply(inv[i], FALSE, "Reverted"), "Reverted"))
    /\ UNCHANGED <<configVars, processed, message, active, evalVars, parseVars>>

\* the upload answers 2xx with an IpfsHash, answers non-2xx, or fetch fails
FetchReturn(i) ==
    /\ inv[i].pc = "fetch"
    /\ \/ \E cid \in {"bafyStrategy", ""} :
             Step(i, Published(Reply(inv[i], TRUE, cid), cid))
       \/ \E error \in {"PinataUploadFailed", "FetchFailed"} :
             Step(i, PublishFailed(Reply(inv[i], FALSE, error), error))
    /\ UNCHANGED <<configVars, processed, message, active, evalVars, parseVars>>

\* strategyVault.setStrategyReference(...) returns the sent transaction or fails
AnchorSubmitReturn(i) ==
    /\ inv[i].pc = "anchorSubmit"
    /\ \/ Step(i, [Call(Reply(inv[i], TRUE, "tx"), "anchorWait")
                      EXCEPT !.pc = "anchorWait"])
       \/ Step(i, AnchorFailed(Reply(inv[i], FALSE, "SubmitFailed"),
                               "SubmitFailed"))
    /\ UNCHANGED <<configVars, processed, message, active, evalVars, parseVars>>

\* tx.wait() of the anchor transaction
AnchorWaitReturn(i) ==
    /\ inv[i].pc = "anchorWait"
    /\ \/ Step(i, StartDelay(Push([Reply(inv[i], TRUE, "receipt")
                                      EXCEPT !.anchorReceipt = <<"receipt">>],
                                  [step |-> "anchored", detail |-> "receipt"])))
       \/ Step(i, AnchorFailed(Reply(inv[i], FALSE, "Reverted"), "Reverted"))
    /\ UNCHANGED <<configVars, processed, message, active, evalVars, parseVars>>

\* the timer of line 455 fires; the execution record is stored
DelayElapsed(i) ==
    /\ inv[i].pc = "delay"
    /\ Step(i, StoreExecution(inv[i]))
    /\ UNCHANGED <<configVars, processed, message, active, evalVars, parseVars>>

\* runtime.createMemory returns, or fails and the outer catch runs
CreateMemoryReturn(i) ==
    /\ inv[i].pc = "createMemory"
    /\ \/ Step(i, SendCallback(Reply(inv[i], TRUE, "id"), "responseContent"))
       \/ Step(i, OuterCatch(Reply(inv[i], FALSE, "StoreFailed")))
    /\ UNCHANGED <<configVars, processed, message, active, evalVars, parseVars>>

\* a callback of the try block returns, or fails and the outer catch runs
CallbackReturn(i) ==
    /\ inv[i].pc = "callback"
    /\ \/ Step(i, [Reply(inv[i], TRUE, "") EXCEPT
                       !.pc = "done", !.pending = "",
                       !.responses = Append(@, inv[i].pending)])
       \/ Step(i, OuterCatch(Reply(inv[i], FALSE, "CallbackFailed")))
    /\ UNCHANGED <<configVars, processed, message, active, evalVars, parseVars>>

\* the callback of the outer catch returns, or fails and the handler rejects
CatchCallbackReturn(i) ==
    /\ inv[i].pc = "catchCallback"
    /\ \/ Step(i, [Reply(inv[i], TRUE, "") EXCEPT
                       !.pc = "done", !.pending = "",
                       !.responses = Append(@, inv[i].pending)])
       \/ Step(i, [Reply(inv[i], FALSE, "CallbackFailed") EXCEPT
                       !.pc = "done", !.pending = "", !.threw = TRUE])
    /\ UNCHANGED <<configVars, processed, message, active, evalVars, parseVars>>


(***************************************************************************)
(* The two validators (parseStrategy.ts 33-63 and 307-321)                 *)
(***************************************************************************)
UpperCase ==
    <<"A", "B", "C", "D", "E", "F", "G", "H", "I", "J", "K", "L", "M",
      "N", "O", "P", "Q", "R", "S", "T", "U", "V", "W", "X", "Y", "Z">>

LowerCase ==
    <<"a", "b", "c", "d", "e", "f", "g", "h", "i", "j", "k", "l", "m",
      "n", "o", "p", "q", "r", "s", "t", "u", "v", "w", "x", "y", "z">>

\* String.prototype.toLowerCase, character by character
toLowerCase(text) ==
    [k \in DOMAIN text |->
        IF \E n \in DOMAIN UpperCase : UpperCase[n] = text[k]
        THEN LowerCase[CHOOSE n \in DOMAIN UpperCase : UpperCase[n] = text[k]]
        ELSE text[k]]

\* String.prototype.includes
includes(text, word) ==
    \E k \in 1..(Len(text) - Len(word) + 1) :
        SubSeq(text, k, k + Len(word) - 1) = word

WordExecute == <<"e", "x", "e", "c", "u", "t", "e">>
WordAllocate == <<"a", "l", "l", "o", "c", "a", "t", "e">>
WordInvest == <<"i", "n", "v", "e", "s", "t">>
WordStrategy == <<"s", "t", "r", "a", "t", "e", "g", "y">>
WordYield == <<"y", "i", "e", "l", "d">>
WordApy == <<"a", "p", "y">>
WordEarn == <<"e", "a", "r", "n">>
WordLending == <<"l", "e", "n", "d", "i", "n", "g">>
WordStake == <<"s", "t", "a", "k", "e">>
WordRebalance == <<"r", "e", "b", "a", "l", "a", "n", "c", "e">>

\* faulty variant: the text is not tested for 'execute'
parseValidateAnyText(text, actions, id) ==
    LET lower == toLowerCase(text)
    IN  IF PARSE \in actions THEN FALSE
        ELSE IF id # "" /\ id \in processedMessageIds THEN FALSE
        ELSE /\ \/ includes(lower, WordAllocate)
                \/ includes(lower, WordInvest)
                \/ includes(lower, WordStrategy)
             /\ \/ includes(lower, WordYield)
                \/ includes(lower, WordApy)
                \/ includes(lower, WordEarn)
                \/ includes(lower, WordLending)
                \/ includes(lower, WordStake)
                \/ includes(lower, WordRebalance)

\* parseStrategyAction.validate on a message with this text, these
\* content.actions and this id
parseValidate(text, actions, id) ==
    LET lower == toLowerCase(text)
    IN  IF includes(lower, WordExecute) THEN FALSE
        ELSE IF PARSE \in actions THEN FALSE
        ELSE IF id # "" /\ id \in processedMessageIds THEN FALSE
        ELSE /\ \/ includes(lower, WordAllocate)
                \/ includes(lower, WordInvest)
                \/ includes(lower, WordStrategy)
             /\ \/ includes(lower, WordYield)
                \/ includes(lower, WordApy)
                \/ includes(lower, WordEarn)
                \/ includes(lower, WordLending)
                \/ includes(lower, WordStake)
                \/ includes(lower, WordRebalance)

\* executeStrategyAction.validate
executeValidate(text, actions) ==
    IF EXECUTE \in actions THEN FALSE
    ELSE includes(toLowerCase(text), WordExecute)

\* texts and content.actions of inbound messages
Texts ==
    {<<"E", "x", "e", "c", "u", "t", "e", " ", "m", "y", " ", "s", "t", "r", "a", "t", "e", "g", "y">>,
     <<"i", "n", "v", "e", "s", "t", " ", "a", "p", "y">>,
     <<"e", "x", "e", "c", "u", "t", "e", " ", "i", "n", "v", "e", "s", "t", " ", "a", "p", "y">>,
     <<"I", "N", "V", "E", "S", "T", " ", "f", "o", "r", " ", "Y", "I", "E", "L", "D">>,
     <<"s", "t", "r", "a", "t", "e", "g", "y">>,
     <<"h", "e", "l", "l", "o">>}

ActionLists == {{}, {PARSE}, {EXECUTE}}

\* the host asks both validators about a message
Validate ==
    /\ validOut = << >>
    /\ \E m \in Messages : \E text \in Texts : \E actions \in ActionLists :
          validOut' =
              <<[message |-> m, text |-> text, actions |-> actions,
                 parse |-> parseValidate(text, actions, MessageId(m)),
                 execute |-> executeValidate(text, actions)]>>
    /\ UNCHANGED <<configVars, processed, message, active, inv, evalVars,
                   processedMessageIds, sentResponses, parse>>

(***************************************************************************)
(* parseStrategyAction.handler, one action per suspension point            *)
(***************************************************************************)
IdleParse ==
    [pc |-> "idle",
     calls |-> << >>,
     strategyJSON |-> << >>,      \* the validated output of the model
     error |-> << >>,             \* what the outer catch caught
     pending |-> "",
     responses |-> << >>,
     threw |-> FALSE]

ParseCall(r, name) == [r EXCEPT !.calls = Append(@, name)]

\* the outer catch (lines 233-245): await callback(errorContent)
ParseOuterCatch(r, error) ==
    [ParseCall(r, "callback") EXCEPT !.pc = "catchCallback",
                                      !.pending = "errorContent",
                                      !.error = <<error>>]

\* the strategies the model may return that pass StrategySchema
ParsedStrategies ==
    {[schemaValid |-> TRUE, assetAllocation |-> [lendingProtocol |-> 700],
      investmentCondition |-> c] : c \in {CondAbove6, CondAtLeast65}}

\* faulty variant: the registry of ids is neither read nor written
ParseHandlerNoRegistry(p) ==
    /\ parse[p].pc = "idle"
    /\ IF processed[message[p]] = PARSE
       THEN /\ parse' = [parse EXCEPT ![p].pc = "done"]
            /\ UNCHANGED processed
       ELSE /\ processed' = [processed EXCEPT ![message[p]] = PARSE]
            /\ parse' = [parse EXCEPT ![p] =
                   [ParseCall(@, "useModel") EXCEPT !.pc = "useModel"]]
    /\ UNCHANGED <<configVars, message, active, inv, evalVars,
                   processedMessageIds, sentResponses, validOut>>

\* faulty variant: the id is recorded but the registry is not consulted
ParseHandlerGuardOff(p) ==
    /\ parse[p].pc = "idle"
    /\ LET id == MessageId(message[p])
       IN  IF processed[message[p]] = PARSE
           THEN /\ parse' = [parse EXCEPT ![p].pc = "done"]
                /\ UNCHANGED <<processed, processedMessageIds>>
           ELSE /\ processed' = [processed EXCEPT ![message[p]] = PARSE]
                /\ processedMessageIds' =
                       IF id # "" THEN processedMessageIds \cup {id}
                       ELSE processedMessageIds
                /\ parse' = [parse EXCEPT ![p] =
                       [ParseCall(@, "useModel") EXCEPT !.pc = "useModel"]]
    /\ UNCHANGED <<configVars, message, active, inv, evalVars, sentResponses,
                   validOut>>

\* lines 72-162: the two guards, the two marks, and the call of the model,
\* with no await in between
ParseHandler(p) ==
    /\ parse[p].pc = "idle"
    /\ LET id == MessageId(message[p])
       IN  IF processed[message[p]] = PARSE
           THEN /\ parse' = [parse EXCEPT ![p].pc = "done"]
                /\ UNCHANGED <<processed, processedMessageIds>>
           ELSE IF id # "" /\ id \in processedMessageIds
           THEN /\ parse' = [parse EXCEPT ![p].pc = "done"]
                /\ UNCHANGED <<processed, processedMessageIds>>
           ELSE /\ processed' = [processed EXCEPT ![message[p]] = PARSE]
                /\ processedMessageIds' =
                       IF id # "" THEN processedMessageIds \cup {id}
                       ELSE processedMessageIds
                /\ parse' = [parse EXCEPT ![p] =
                       [ParseCall(@, "useModel") EXCEPT !.pc = "useModel"]]
    /\ UNCHANGED <<configVars, message, active, inv, evalVars, sentResponses,
                   validOut>>

\* faulty variant: a failed invocation takes its id out of the registry
UseModelReturnUnmarks(p) ==
    /\ parse[p].pc = "useModel"
    /\ \/ /\ \E error \in {"ModelError", "NoJson", "BadJson", "SchemaInvalid"} :
                parse' = [parse EXCEPT ![p] = ParseOuterCatch(@, error)]
          /\ processedMessageIds' =
                 processedMessageIds \ {MessageId(message[p])}
       \/ /\ \E strategyJSON \in ParsedStrategies :
                parse' = [parse EXCEPT ![p] =
                    [ParseCall(@, "createMemory") EXCEPT
                         !.pc = "createMemory",
                         !.strategyJSON = <<strategyJSON>>]]
          /\ UNCHANGED processedMessageIds
    /\ UNCHANGED <<configVars, processed, message, active, inv, evalVars,
                   sentResponses, validOut>>

\* lines 162-212: runtime.useModel rejects, or its text holds no JSON, JSON
\* that does not parse or JSON that fails the schema (all thrown to the outer
\* catch), or a valid strategy, which is stored
UseModelReturn(p) ==
    /\ parse[p].pc = "useModel"
    /\ \/ \E error \in {"ModelError", "NoJson", "BadJson", "SchemaInvalid"} :
             parse' = [parse EXCEPT ![p] = ParseOuterCatch(@, error)]
       \/ \E strategyJSON \in ParsedStrategies :
             parse' = [parse EXCEPT ![p] =
                 [ParseCall(@, "createMemory") EXCEPT
                      !.pc = "createMemory",
                      !.strategyJSON = <<strategyJSON>>]]
    /\ UNCHANGED <<configVars, processed, message, active, inv, evalVars,
                   processedMessageIds, sentResponses, validOut>>

\* lines 203-230: the row is stored; a response whose hash is in
\* _sentResponses is not sent (return null), another one is marked and sent
ParseCreateMemoryReturn(p) ==
    /\ parse[p].pc = "createMemory"
    /\ \/ /\ yieldStrategies' = <<parse[p].strategyJSON[1]>>
          /\ IF parse[p].strategyJSON[1] \in sentResponses
             THEN /\ parse' = [parse EXCEPT ![p].pc = "done"]
                  /\ UNCHANGED sentResponses
             ELSE /\ sentResponses' =
                         sentResponses \cup {parse[p].strategyJSON[1]}
                  /\ parse' = [parse EXCEPT ![p] =
                         [ParseCall(@, "callback") EXCEPT
                              !.pc = "callback",
                              !.pending = "responseContent"]]
       \/ /\ parse' = [parse EXCEPT ![p] = ParseOuterCatch(@, "StoreFailed")]
          /\ UNCHANGED <<yieldStrategies, sentResponses>>
    /\ UNCHANGED <<networkConfig, privateKey, pinataJwt, totalAssets,
                   processed, message, active, inv, evalVars,
                   processedMessageIds, validOut>>

\* the callback of line 230 returns, or fails and the outer catch runs
ParseCallbackReturn(p) ==
    /\ parse[p].pc = "callback"
    /\ \/ parse' = [parse EXCEPT ![p] =
              [@ EXCEPT !.pc = "done", !.pending = "",
                        !.responses = Append(@, parse[p].pending)]]
       \/ parse' = [parse EXCEPT ![p] = ParseOuterCatch(@, "CallbackFailed")]
    /\ UNCHANGED <<configVars, processed, message, active, inv, evalVars,
                   processedMessageIds, sentResponses, validOut>>

\* the callback of the outer catch returns, or fails and the handler rejects
ParseCatchCallbackReturn(p) ==
    /\ parse[p].pc = "catchCallback"
    /\ \/ parse' = [parse EXCEPT ![p] =
              [@ EXCEPT !.pc = "done", !.pending = "",
                        !.responses = Append(@, parse[p].pending)]]
       \/ parse' = [parse EXCEPT ![p] =
              [@ EXCEPT !.pc = "done", !.pending = "", !.threw = TRUE]]
    /\ UNCHANGED <<configVars, processed, message, active, inv, evalVars,
                   processedMessageIds, sentResponses, validOut>>

(***************************************************************************)
(* Harness of the condition evaluator: an expression is put together from  *)
(* pieces, and the evaluator is applied to the resulting text.             *)
(***************************************************************************)
Prefixes == {<< >>, <<"n", "o", " ">>}
Literals == {<<"A", "P", "Y">>, <<"a", "p", "y">>, <<"A", "p", "Y">>,
             <<"A", "P">>}
Spaces == {<< >>, <<" ">>, <<" ", "\t">>}
Operators == {<<">">>, <<">", "=">>, <<"<">>, <<"<", "=">>, <<"=", "=">>,
              <<"=">>, <<"=", ">">>, <<">", ">">>, <<"=", "<">>, <<"!", "=">>,
              << >>}
Numbers == {<<"6">>, <<"6", ".", "5">>, <<"7", ".", "2">>, <<"1", "0">>,
            <<"6", ".", "5", ".", "2">>, <<".">>, <<"6", ",", "5">>, << >>}
Percents == {<< >>, <<"%">>}
Suffixes == {<< >>, <<" ", "o", "k">>}

EvalRates == {50, 60, 65, 72, 100}

ExprText(e) ==
    e.prefix \o e.literal \o e.space1 \o e.operator \o e.space2 \o e.number
      \o e.percent \o e.suffix

DefaultExpr ==
    [prefix |-> << >>, literal |-> <<"A", "P", "Y">>, space1 |-> <<" ">>,
     operator |-> <<">">>, space2 |-> <<" ">>, number |-> <<"6">>,
     percent |-> <<"%">>, suffix |-> << >>]

Evaluate ==
    /\ evalOut = << >>
    /\ evalOut' = <<shouldInvestInLendingProtocol(ExprText(evalIn), evalRate)>>
    /\ UNCHANGED <<configVars, processed, message, active, inv, evalIn, evalRate,
                   parseVars>>

(***************************************************************************)
(* Initial states and specifications                                       *)
(***************************************************************************)
StrategyRows ==
    {[schemaValid |-> TRUE, assetAllocation |-> a, investmentCondition |-> c] :
        a \in Allocations, c \in Conditions}
      \cup {[schemaValid |-> FALSE, assetAllocation |-> [stablecoin |-> 700],
             investmentCondition |-> << >>]}

InitConfig ==
    /\ networkConfig \in
           [strategyVaultAddress : {"", VaultAddress},
            lendingPoolAddress : {"", PoolAddress},
            tokenAddress : {"", TokenAddress},
            currentAPY : Rates]
    /\ privateKey \in {"", "0xKey"}
    /\ pinataJwt \in {"", "jwt"}
    /\ yieldStrategies \in {<< >>} \cup {<<row>> : row \in StrategyRows}
    /\ totalAssets \in Balances

InitHandlers ==
    /\ processed = [m \in Messages |-> ""]
    /\ inv = [i \in Invocations |-> IdleInvocation]
    /\ processedMessageIds = {}
    /\ sentResponses = {}
    /\ parse = [i \in Invocations |-> IdleParse]
    /\ validOut = << >>

InitNoEval ==
    /\ evalIn = DefaultExpr
    /\ evalRate = 50
    /\ evalOut = << >>

\* one invocation of the handler, every configuration and stored strategy
Init ==
    /\ InitConfig
    /\ InitHandlers
    /\ message = [i \in Invocations |-> "m1"]
    /\ active = {1}
    /\ InitNoEval

Next ==
    \E i \in Invocations :
        \/ ExecuteHandler(i)
        \/ GetMemoriesReturn(i)
        \/ TotalAssetsReturn(i)
        \/ ExecuteReturn(i)
        \/ WaitReturn(i)
        \/ FetchReturn(i)
        \/ AnchorSubmitReturn(i)
        \/ AnchorWaitReturn(i)
        \/ DelayElapsed(i)
        \/ CreateMemoryReturn(i)
        \/ CallbackReturn(i)
        \/ CatchCallbackReturn(i)

Spec == Init /\ [][Next]_vars

\* the condition evaluator applied to every expression of the harness
InitEval ==
    /\ networkConfig = [strategyVaultAddress |-> VaultAddress,
                        lendingPoolAddress |-> PoolAddress,
                        tokenAddress |-> TokenAddress, currentAPY |-> 50]
    /\ privateKey = "0xKey"
    /\ pinataJwt = "jwt"
    /\ yieldStrategies = << >>
    /\ totalAssets = 0
    /\ InitHandlers
    /\ message = [i \in Invocations |-> "m1"]
    /\ active = {}
    /\ evalIn \in [prefix : Prefixes, literal : Literals, space1 : Spaces,
                   operator : Operators, space2 : Spaces, number : Numbers,
                   percent : Percents, suffix : Suffixes]
    /\ evalRate \in EvalRates
    /\ evalOut = << >>

NextEval == Evaluate

SpecEval == InitEval /\ [][NextEval]_vars


\* two invocations of the handler run concurrently on a configured network
\* with an executable strategy stored; they are given the same message
\* object, two deliveries of one message, or two different messages
InitConc ==
    /\ networkConfig \in
           [strategyVaultAddress : {VaultAddress},
            lendingPoolAddress : {PoolAddress},
            tokenAddress : {TokenAddress},
            currentAPY : {50, 72}]
    /\ privateKey = "0xKey"
    /\ pinataJwt = "jwt"
    /\ yieldStrategies =
           <<[schemaValid |-> TRUE, assetAllocation |-> [lendingProtocol |-> 700],
              investmentCondition |-> CondAbove6]>>
    /\ totalAssets \in {0, 1000000}
    /\ InitHandlers
    /\ message \in {[i \in Invocations |-> "m1"],
                    [i \in Invocations |-> IF i = 1 THEN "m1" ELSE "m2"],
                    [i \in Invocations |-> IF i = 1 THEN "m1" ELSE "m3"]}
    /\ active = Invocations
    /\ InitNoEval

SpecConc == InitConc /\ [][Next]_vars


(***************************************************************************)
(* Properties                                                              *)
(***************************************************************************)
(***************************************************************************)
(* Two invocations on a vault whose balance goes down in between (someone  *)
(* withdraws): what vault.totalAssets() returns depends on when it is      *)
(* called.                                                                 *)
(***************************************************************************)
VaultBalanceChanges ==
    /\ \E balance \in Balances :
          /\ balance < totalAssets
          /\ balance >= 1000
          /\ totalAssets' = balance
    /\ UNCHANGED <<networkConfig, privateKey, pinataJwt, yieldStrategies,
                   processed, message, active, inv, evalVars, parseVars>>

InitLive ==
    /\ networkConfig =
           [strategyVaultAddress |-> VaultAddress,
            lendingPoolAddress |-> PoolAddress,
            tokenAddress |-> TokenAddress,
            currentAPY |-> 72]
    /\ privateKey = "0xKey"
    /\ pinataJwt = "jwt"
    /\ yieldStrategies =
           <<[schemaValid |-> TRUE, assetAllocation |-> [lendingProtocol |-> 700],
              investmentCondition |-> CondAbove6]>>
    /\ totalAssets = 1000000
    /\ InitHandlers
    /\ message = [i \in Invocations |-> IF i = 1 THEN "m1" ELSE "m3"]
    /\ active = Invocations
    /\ InitNoEval

NextLive == Next \/ VaultBalanceChanges

SpecLive == InitLive /\ [][NextLive]_vars

(***************************************************************************)
(* The handler under the assumption that every awaited call returns: the   *)
(* event loop runs a handler that was invoked, resumes it when the awaited *)
(* promise settles, and fires the timer.                                   *)
(***************************************************************************)
EveryCallReturns ==
    \A i \in Invocations :
        /\ WF_vars(ExecuteHandler(i))
        /\ WF_vars(GetMemoriesReturn(i))
        /\ WF_vars(TotalAssetsReturn(i))
        /\ WF_vars(ExecuteReturn(i))
        /\ WF_vars(WaitReturn(i))
        /\ WF_vars(FetchReturn(i))
        /\ WF_vars(AnchorSubmitReturn(i))
        /\ WF_vars(AnchorWaitReturn(i))
        /\ WF_vars(DelayElapsed(i))
        /\ WF_vars(CreateMemoryReturn(i))
        /\ WF_vars(CallbackReturn(i))
        /\ WF_vars(CatchCallbackReturn(i))

SpecFair == Init /\ [][Next]_vars /\ EveryCallReturns

(***************************************************************************)
(* The parse handler invoked for two messages, and the validators asked    *)
(* at any moment                                                           *)
(***************************************************************************)
InitParse ==
    /\ networkConfig = [strategyVaultAddress |-> VaultAddress,
                        lendingPoolAddress |-> PoolAddress,
                        tokenAddress |-> TokenAddress, currentAPY |-> 50]
    /\ privateKey = "0xKey"
    /\ pinataJwt = "jwt"
    /\ yieldStrategies = << >>
    /\ totalAssets = 0
    /\ InitHandlers
    /\ message \in {[i \in Invocations |-> "m1"],
                    [i \in Invocations |-> IF i = 1 THEN "m1" ELSE "m2"],
                    [i \in Invocations |-> IF i = 1 THEN "m1" ELSE "m3"],
                    [i \in Invocations |-> IF i = 1 THEN "m1" ELSE "m4"]}
    /\ active = {}
    /\ InitNoEval

NextParse ==
    \/ \E p \in Invocations :
          \/ ParseHandler(p)
          \/ UseModelReturn(p)
          \/ ParseCreateMemoryReturn(p)
          \/ ParseCallbackReturn(p)
          \/ ParseCatchCallbackReturn(p)
    \/ Validate

SpecParse == InitParse /\ [][NextParse]_vars

Range(s) == {s[k] : k \in DOMAIN s}

Count(s, x) == Cardinality({k \in DOMAIN s : s[k] = x})

Done(i) == inv[i].pc = "done"

\* the allocation step of invocation i has returned to the handler
AllocationReturned(i) == inv[i].receipt # << >> \/ inv[i].allocError # << >>

\* C1: two invocations of the execute handler that carry the same message
\* identifier cause one set of side effects in total (at most one allocation
\* transaction submission, at most one upload), and one of the two returns
\* without contacting any external collaborator.
C1_SameIdOneSetOfEffects ==
    \A i, j \in active :
        (i # j /\ MessageId(message[i]) = MessageId(message[j])) =>
            /\ Len(inv[i].txs) + Len(inv[j].txs) <= 1
            /\ Count(inv[i].calls, "fetch") + Count(inv[j].calls, "fetch") <= 1
            /\ (inv[i].calls = << >> \/ inv[j].calls = << >>)

\* two deliveries of one message have each submitted an allocation transaction
C1_DoubleSubmission ==
    /\ message[1] # message[2]
    /\ MessageId(message[1]) = MessageId(message[2])
    /\ Len(inv[1].txs) = 1
    /\ Len(inv[2].txs) = 1

\* C2: in every invocation whose investment condition evaluated to false, no
\* allocation transaction is submitted, the vault balance is not read, and
\* the allocation result is the null "no action taken" outcome, not an error.
C2_GatingFailsClosed ==
    \A i \in Invocations :
        inv[i].shouldInvest = <<FALSE>> =>
            /\ inv[i].txs = << >>
            /\ inv[i].totalAmount = << >>
            /\ "totalAssets" \notin Range(inv[i].calls)
            /\ "execute" \notin Range(inv[i].calls)
            /\ inv[i].receipt = <<"null">>
            /\ inv[i].allocError = << >>
            /\ inv[i].steps[1].step = "noAction"

\* an invocation has finished whose unparseable condition closed the gate
C2_Witness ==
    \E i \in Invocations :
        /\ Done(i)
        /\ inv[i].shouldInvest = <<FALSE>>
        /\ inv[i].strategy[1].investmentCondition = CondProse
        /\ networkConfig.currentAPY = 72
        /\ inv[i].responses = <<"responseContent">>

\* the expressions 'APY {op} T%' of the harness that are well formed: nothing
\* before or after, the literal in any case, one of the six operators, a
\* decimal number
WellFormedNumbers == {<<"6">>, <<"6", ".", "5">>, <<"7", ".", "2">>, <<"1", "0">>}

SixOperators ==
    {<<">">>, <<">", "=">>, <<"<">>, <<"<", "=">>, <<"=", "=">>, <<"=">>}

WellFormed(e) ==
    /\ e.prefix = << >>
    /\ e.suffix = << >>
    /\ e.literal \in {<<"A", "P", "Y">>, <<"a", "p", "y">>, <<"A", "p", "Y">>}
    /\ e.operator \in SixOperators
    /\ e.number \in WellFormedNumbers

\* the number T that a well-formed numeral denotes, in tenths
Threshold(number) ==
    CASE number = <<"6">> -> 60
      [] number = <<"6", ".", "5">> -> 65
      [] number = <<"7", ".", "2">> -> 72
      [] number = <<"1", "0">> -> 100

\* the mathematical comparison 'rate op T'
Comparison(rate, op, T) ==
    \/ op = <<">">> /\ rate > T
    \/ op = <<">", "=">> /\ rate >= T
    \/ op = <<"<">> /\ rate < T
    \/ op = <<"<", "=">> /\ rate <= T
    \/ op \in {<<"=", "=">>, <<"=">>} /\ rate = T

\* C3: on every well-formed expression 'APY {op} T%' and every rate, the
\* evaluator returns the mathematical comparison 'rate op T', = and == both
\* meaning equality.
C3_EvaluatorIsComparison ==
    (evalOut # << >> /\ WellFormed(evalIn)) =>
        (evalOut[1] <=> Comparison(evalRate, evalIn.operator,
                                   Threshold(evalIn.number)))

\* 'apy \t=6.5%' evaluated to true at the rate 6.5
C3_Witness ==
    /\ evalOut = <<TRUE>>
    /\ WellFormed(evalIn)
    /\ evalIn.literal = <<"a", "p", "y">>
    /\ evalIn.space1 = <<" ", "\t">>
    /\ evalIn.operator = <<"=">>
    /\ evalIn.number = <<"6", ".", "5">>
    /\ evalIn.percent = <<"%">>
    /\ evalRate = 65

\* C4: on every condition string that is not of the accepted shape (text
\* before or after the expression, an operator sequence such as => or >>, a
\* malformed number), the evaluator returns false.
C4_OtherShapesAreFalse ==
    (evalOut # << >> /\ ~WellFormed(evalIn)) => evalOut[1] = FALSE


\* the strategy that invocation i executes, its lending percentage (tenths)
StrategyOf(i) == inv[i].strategy[1]

HasPercentage(i) == "lendingProtocol" \in DOMAIN StrategyOf(i).assetAllocation

PercentageOf(i) == StrategyOf(i).assetAllocation.lendingProtocol

\* the amount of the approve and of the deposit call of a batch
ApprovedAmount(tx) == tx.data[1].args[2]

DepositedAmount(tx) == tx.data[2].args[1]

\* the allocation calculator is reached: the gate passed, a positive balance
\* was read and the signer could be built
CalculatorReached(i) ==
    /\ inv[i].shouldInvest = <<TRUE>>
    /\ inv[i].totalAmount # << >>
    /\ inv[i].totalAmount[1] > 0
    /\ privateKey # ""

\* C5: the allocation amount is floor(totalBalance * percentage / 100): the
\* fractional remainder is dropped, never rounded up; and an amount is
\* computed for every positive balance and every whole percentage > 0.
C5_AmountIsFloor ==
    \A i \in Invocations :
        /\ \A k \in DOMAIN inv[i].txs :
              LET amount == DepositedAmount(inv[i].txs[k])
                  product == inv[i].totalAmount[1] * PercentageOf(i)
              IN  /\ PercentageOf(i) > 0
                  /\ 1000 * amount <= product
                  /\ product < 1000 * (amount + 1)
        /\ (/\ CalculatorReached(i)
            /\ HasPercentage(i)
            /\ PercentageOf(i) \in {10 * p : p \in 1..200}
            /\ networkConfig.tokenAddress # "") => Len(inv[i].txs) = 1

\* balance 999 at 70 percent: 699 is deposited
C5_Witness ==
    \E i \in Invocations :
        /\ inv[i].txs # << >>
        /\ inv[i].totalAmount = <<999>>
        /\ PercentageOf(i) = 700
        /\ DepositedAmount(inv[i].txs[1]) = 699

PercentageNotPositive(i) == ~HasPercentage(i) \/ PercentageOf(i) <= 0

UploadAttempted(i) ==
    \/ "fetch" \in Range(inv[i].calls)
    \/ inv[i].publishError = <<"PinataJwtNotSet">>

\* every address and the signing key are configured
FullyConfigured ==
    /\ networkConfig.strategyVaultAddress # ""
    /\ networkConfig.lendingPoolAddress # ""
    /\ networkConfig.tokenAddress # ""
    /\ privateKey # ""

\* C6 as stated: whenever the lending percentage is zero, negative or unset,
\* the allocation step ends with the no-allocation error and no transaction
\* (on a fully configured network).
C6_NonPositiveAlwaysNoAllocationError ==
    \A i \in Invocations :
        (FullyConfigured /\ inv[i].strategy # << >> /\ PercentageNotPositive(i)
           /\ AllocationReturned(i)) =>
            /\ inv[i].allocError = <<"NoAllocation">>
            /\ inv[i].txs = << >>

\* C6 amended: with a lending percentage that is zero, negative or unset no
\* transaction is ever submitted; when the allocation calculator is reached
\* (condition true, positive balance, signing key configured), the allocation
\* step fails with the no-allocation error, the failure is recorded as a step
\* and the upload is still attempted.
C6_NoAllocationError ==
    \A i \in Invocations :
        (inv[i].strategy # << >> /\ PercentageNotPositive(i)) =>
            /\ inv[i].txs = << >>
            /\ "execute" \notin Range(inv[i].calls)
            /\ CalculatorReached(i) =>
                  /\ inv[i].allocError = <<"NoAllocation">>
                  /\ inv[i].receipt = << >>
                  /\ inv[i].steps[1] =
                         [step |-> "executeFailed", detail |-> "NoAllocation"]
                  /\ UploadAttempted(i)

\* percentage 0, calculator reached: no-allocation error, then the upload
\* succeeded and the handler finished
C6_Witness ==
    \E i \in Invocations :
        /\ Done(i)
        /\ inv[i].strategy # << >>
        /\ HasPercentage(i)
        /\ PercentageOf(i) = 0
        /\ CalculatorReached(i)
        /\ inv[i].allocError = <<"NoAllocation">>
        /\ inv[i].ipfsResult # << >>

\* C7 as stated: for every strategy that passes the schema, the amount of the
\* approve and deposit calls never exceeds the balance read from the vault.
C7_AmountWithinBalance ==
    \A i \in Invocations :
        \A k \in DOMAIN inv[i].txs :
            /\ ApprovedAmount(inv[i].txs[k]) <= inv[i].totalAmount[1]
            /\ DepositedAmount(inv[i].txs[k]) <= inv[i].totalAmount[1]

\* C7 amended: for every strategy whose lending percentage is at most 100,
\* the amount never exceeds the balance read from the vault.
C7_AmountWithinBalanceUpTo100 ==
    \A i \in Invocations :
        \A k \in DOMAIN inv[i].txs :
            PercentageOf(i) <= 1000 =>
                /\ ApprovedAmount(inv[i].txs[k]) <= inv[i].totalAmount[1]
                /\ DepositedAmount(inv[i].txs[k]) <= inv[i].totalAmount[1]

\* 100 percent of the balance 1000000: the whole balance is deposited
C7_Witness ==
    \E i \in Invocations :
        /\ inv[i].txs # << >>
        /\ PercentageOf(i) = 1000
        /\ inv[i].totalAmount = <<1000000>>
        /\ DepositedAmount(inv[i].txs[1]) = 1000000

\* C8: every allocation submission is one vault.execute call whose batch is
\* approve(lendingPool, amount) on the token, then deposit(amount) on the
\* lending pool, the same amount in both, both values zero; 70 percent of
\* 1000000 gives 700000.
C8_BatchIsApproveThenDeposit ==
    \A i \in Invocations :
        /\ Count(inv[i].calls, "execute") = Len(inv[i].txs)
        /\ \A k \in DOMAIN inv[i].txs :
              LET tx == inv[i].txs[k]
              IN  /\ tx.contracts = <<TokenAddress, PoolAddress>>
                  /\ Len(tx.data) = 2
                  /\ tx.data[1].function = "approve"
                  /\ tx.data[1].args = <<PoolAddress, DepositedAmount(tx)>>
                  /\ tx.data[2].function = "deposit"
                  /\ tx.data[2].args = <<DepositedAmount(tx)>>
                  /\ tx.msgValues = <<0, 0>>
                  /\ (inv[i].totalAmount = <<1000000>> /\ PercentageOf(i) = 700)
                         => DepositedAmount(tx) = 700000

\* allocation 70, 'APY > 6%', rate 7.2, balance 1000000: the mined batch
C8_Witness ==
    \E i \in Invocations :
        /\ inv[i].txs # << >>
        /\ StrategyOf(i).investmentCondition = CondAbove6
        /\ PercentageOf(i) = 700
        /\ networkConfig.currentAPY = 72
        /\ inv[i].totalAmount = <<1000000>>
        /\ inv[i].receipt = <<"receipt">>
        /\ ApprovedAmount(inv[i].txs[1]) = 700000
        /\ DepositedAmount(inv[i].txs[1]) = 700000

\* C9: within one invocation the allocation transaction is submitted at most
\* once; a failed submission or a revert is recorded in the outcome and the
\* transaction is not submitted again.
C9_NoRetry ==
    \A i \in Invocations :
        /\ Len(inv[i].txs) <= 1
        /\ Count(inv[i].calls, "execute") <= 1
        /\ (inv[i].allocError # << >>
              /\ inv[i].allocError[1] \in {"SubmitFailed", "Reverted"}) =>
               /\ Len(inv[i].txs) = 1
               /\ inv[i].receipt = << >>
               /\ inv[i].steps[1] =
                      [step |-> "executeFailed", detail |-> inv[i].allocError[1]]
               /\ inv[i].pc \notin {"execute", "wait"}

\* a reverted allocation was reported in the response and not resubmitted
C9_Witness ==
    \E i \in Invocations :
        /\ Done(i)
        /\ inv[i].allocError = <<"Reverted">>
        /\ Len(inv[i].txs) = 1
        /\ inv[i].responses = <<"responseContent">>

\* C10: when the condition holds and the balance read is 0 or less, no
\* allocation transaction is submitted, the receipt is null and no error of
\* the allocation step is recorded.
C10_ZeroBalanceIsCleanSkip ==
    \A i \in Invocations :
        (/\ inv[i].shouldInvest = <<TRUE>>
         /\ inv[i].totalAmount # << >>
         /\ inv[i].totalAmount[1] <= 0) =>
            /\ inv[i].txs = << >>
            /\ "execute" \notin Range(inv[i].calls)
            /\ inv[i].receipt = <<"null">>
            /\ inv[i].allocError = << >>
            /\ inv[i].steps[1] = [step |-> "noAction", detail |-> ""]

\* condition true, balance 0: the invocation finished with a null receipt
C10_Witness ==
    \E i \in Invocations :
        /\ Done(i)
        /\ inv[i].shouldInvest = <<TRUE>>
        /\ inv[i].totalAmount = <<0>>
        /\ inv[i].receipt = <<"null">>
        /\ inv[i].responses = <<"responseContent">>

(***************************************************************************)
(* C11..C20: the steps after the allocation                                *)
(***************************************************************************)
\* the replies that invocation i received to its calls named call
RepliesTo(i, call) ==
    {inv[i].replies[k] : k \in {n \in DOMAIN inv[i].replies :
                                    inv[i].replies[n].call = call}}

\* the storage endpoint answered the upload of invocation i with 2xx
PublicationSucceeded(i) == \E rep \in RepliesTo(i, "fetch") : rep.ok

\* the allocation step failed on the chain: balance read, submission or revert
ChainFailure(i) ==
    /\ inv[i].allocError # << >>
    /\ inv[i].allocError[1] \in {"RpcError", "SubmitFailed", "Reverted"}

\* responseContent went through the callback
Delivered(i) == "responseContent" \in Range(inv[i].responses)

\* C11: when the allocation step fails on the chain (balance read, submission
\* or revert), the failure is recorded and the upload is still attempted; when
\* the upload succeeds, the response built afterwards carries a non-null
\* ipfsData next to the recorded allocation error.
C11_ContinueOnAllocationError ==
    \A i \in Invocations :
        ChainFailure(i) =>
            /\ inv[i].steps[1] =
                   [step |-> "executeFailed", detail |-> inv[i].allocError[1]]
            /\ UploadAttempted(i)
            /\ PublicationSucceeded(i) => inv[i].ipfsResult # << >>
            /\ (PublicationSucceeded(i) /\ inv[i].responseContent # << >>) =>
                   /\ inv[i].responseContent[1].ipfsData # << >>
                   /\ [step |-> "executeFailed", detail |-> inv[i].allocError[1]]
                          \in Range(inv[i].responseContent[1].steps)
            /\ Delivered(i) => inv[i].responseContent # << >>

\* the balance read failed, the upload succeeded, and the response delivered
\* carries both the error and the IPFS record
C11_Witness ==
    \E i \in Invocations :
        /\ Done(i)
        /\ inv[i].allocError = <<"RpcError">>
        /\ PublicationSucceeded(i)
        /\ inv[i].responses = <<"responseContent">>
        /\ inv[i].responseContent[1].ipfsData # << >>

\* position of the first call named call among the calls of invocation i
\* (0 when there is none)
FirstCall(i, call) ==
    IF call \in Range(inv[i].calls)
    THEN CHOOSE k \in DOMAIN inv[i].calls :
             /\ inv[i].calls[k] = call
             /\ \A n \in 1..(k - 1) : inv[i].calls[n] # call
    ELSE 0

\* setStrategyReference was entered by invocation i, with whatever result
AnchorAttempted(i) ==
    \/ inv[i].anchorTxs # << >>
    \/ inv[i].anchorError # << >>
    \/ inv[i].anchorReceipt # << >>
    \/ "setStrategyReference" \in Range(inv[i].calls)

\* a step of the anchoring is listed among the steps of invocation i
AnchorStepListed(i) ==
    \E k \in DOMAIN inv[i].steps :
        inv[i].steps[k].step \in {"anchored", "anchorFailed"}

\* C12: setStrategyReference is attempted only after the upload of the same
\* invocation was answered 2xx with a non-empty cid, and the transaction
\* carries the gateway URL of that cid; when the upload fails or the cid is
\* empty, no anchor transaction is submitted and nothing of the anchoring is
\* recorded.
C12_AnchorOnlyAfterPublish ==
    \A i \in Invocations :
        /\ AnchorAttempted(i) =>
               \E rep \in RepliesTo(i, "fetch") : rep.ok /\ rep.value # ""
        /\ "setStrategyReference" \in Range(inv[i].calls) =>
               /\ FirstCall(i, "fetch") > 0
               /\ FirstCall(i, "fetch") < FirstCall(i, "setStrategyReference")
        /\ \A k \in DOMAIN inv[i].anchorTxs :
               /\ inv[i].ipfsResult # << >>
               /\ inv[i].anchorTxs[k].referenceData =
                      inv[i].ipfsResult[1].gatewayUrl
        /\ (\/ inv[i].publishError # << >>
            \/ \E rep \in RepliesTo(i, "fetch") : ~rep.ok \/ rep.value = "") =>
               /\ ~AnchorAttempted(i)
               /\ ~AnchorStepListed(i)

\* the upload returned a cid and the anchor transaction carrying its gateway
\* URL was submitted and confirmed
C12_Witness ==
    \E i \in Invocations :
        /\ Done(i)
        /\ \E rep \in RepliesTo(i, "fetch") : rep.ok /\ rep.value = "bafyStrategy"
        /\ Len(inv[i].anchorTxs) = 1
        /\ inv[i].anchorTxs[1].referenceData = IpfsResult("bafyStrategy").gatewayUrl
        /\ inv[i].anchorReceipt = <<"receipt">>

\* reachable as well: the upload answered 2xx with an empty cid and the
\* invocation finished with no anchoring
C12_EmptyCidNoAnchor ==
    \E i \in Invocations :
        /\ Done(i)
        /\ \E rep \in RepliesTo(i, "fetch") : rep.ok /\ rep.value = ""
        /\ ~AnchorAttempted(i)
        /\ Delivered(i)

\* the calls the handler and its helpers make to external collaborators
HandlerCalls ==
    {"getMemories", "totalAssets", "execute", "wait", "fetch",
     "setStrategyReference", "anchorWait", "createMemory", "callback"}

\* C13: when setStrategyReference fails, the failure is listed among the steps
\* and nothing is taken back: ipfsResult still holds the cid and URLs that the
\* upload returned, the entry of the allocation step is still there, the
\* response built afterwards carries both, and no further transaction, upload
\* or deletion is issued.
C13_AnchorFailureRetractsNothing ==
    \A i \in Invocations :
        inv[i].anchorError # << >> =>
            /\ [step |-> "anchorFailed", detail |-> inv[i].anchorError[1]]
                   \in Range(inv[i].steps)
            /\ \E rep \in RepliesTo(i, "fetch") :
                   rep.ok /\ inv[i].ipfsResult = <<IpfsResult(rep.value)>>
            /\ AllocationReturned(i)
            /\ inv[i].steps[1].step \in {"executed", "noAction", "executeFailed"}
            /\ inv[i].responseContent # << >> =>
                   /\ inv[i].responseContent[1].ipfsData = inv[i].ipfsResult
                   /\ inv[i].responseContent[1].steps = inv[i].steps
            /\ Range(inv[i].calls) \subseteq HandlerCalls
            /\ Len(inv[i].txs) <= 1
            /\ Len(inv[i].anchorTxs) <= 1
            /\ Count(inv[i].calls, "fetch") = 1
            /\ Count(inv[i].calls, "execute") <= 1
            /\ Count(inv[i].calls, "setStrategyReference") <= 1

\* the allocation was confirmed, the upload succeeded, the anchor transaction
\* reverted, and the response delivered carries the IPFS record
C13_Witness ==
    \E i \in Invocations :
        /\ Done(i)
        /\ inv[i].anchorError = <<"Reverted">>
        /\ inv[i].receipt = <<"receipt">>
        /\ inv[i].responses = <<"responseContent">>
        /\ inv[i].responseContent[1].ipfsData = <<IpfsResult("bafyStrategy")>>

\* an address or a credential that the invocation needs is not configured
ConfigurationMissing ==
    \/ networkConfig.strategyVaultAddress = ""
    \/ networkConfig.lendingPoolAddress = ""
    \/ networkConfig.tokenAddress = ""
    \/ privateKey = ""
    \/ pinataJwt = ""

\* C14: when the vault, lending pool or token address or a credential is
\* missing, the invocation performs no side effect: no allocation transaction
\* is submitted, no document is uploaded and no anchor transaction is
\* submitted.
C14_ConfigurationErrorIsFatal ==
    \A i \in Invocations :
        ConfigurationMissing =>
            /\ inv[i].txs = << >>
            /\ "fetch" \notin Range(inv[i].calls)
            /\ inv[i].anchorTxs = << >>

\* reachable: with no lending pool address the allocation step fails, and the
\* document is uploaded and anchored all the same
C14_UploadAndAnchorWithoutPool ==
    \E i \in Invocations :
        /\ networkConfig.lendingPoolAddress = ""
        /\ inv[i].allocError = <<"PoolNotConfigured">>
        /\ PublicationSucceeded(i)
        /\ inv[i].anchorReceipt = <<"receipt">>
        /\ Done(i)

\* reachable: with no PINATA_JWT the allocation transaction is submitted and
\* confirmed before the missing credential is noticed
C14_AllocationWithoutJwt ==
    \E i \in Invocations :
        /\ pinataJwt = ""
        /\ inv[i].receipt = <<"receipt">>
        /\ inv[i].publishError = <<"PinataJwtNotSet">>
        /\ Done(i)

\* a step entry whose detail is error is listed in the response built by i
FailureListed(i, error) ==
    /\ inv[i].responseContent # << >>
    /\ \E k \in DOMAIN inv[i].responseContent[1].steps :
           inv[i].responseContent[1].steps[k].detail = error

\* the record store and the callback answered every call of invocation i
CollaboratorsAnswered(i) ==
    \A rep \in RepliesTo(i, "getMemories") \cup RepliesTo(i, "createMemory")
                 \cup RepliesTo(i, "callback") : rep.ok

\* C15: with everything configured and the investment condition met,
\* whichever of allocation, upload and anchoring fail, the handler does not reject, the
\* caller receives responseContent once, and each failure that occurred is
\* listed in it.
C15_EveryStepFailureInOutcome ==
    \A i \in Invocations :
        (/\ Done(i)
         /\ ~ConfigurationMissing
         /\ inv[i].shouldInvest = <<TRUE>>
         /\ CollaboratorsAnswered(i)) =>
            /\ ~inv[i].threw
            /\ inv[i].responses = <<"responseContent">>
            /\ inv[i].allocError # << >> =>
                   FailureListed(i, inv[i].allocError[1])
            /\ inv[i].publishError # << >> =>
                   FailureListed(i, inv[i].publishError[1])
            /\ inv[i].anchorError # << >> =>
                   FailureListed(i, inv[i].anchorError[1])

\* what holds of C15: the handler does not reject, responseContent is
\* delivered once, and the failures of allocation and anchoring are listed
C15_AllocationAndAnchorFailuresListed ==
    \A i \in Invocations :
        (/\ Done(i)
         /\ inv[i].strategy # << >>
         /\ CollaboratorsAnswered(i)) =>
            /\ ~inv[i].threw
            /\ inv[i].responses = <<"responseContent">>
            /\ inv[i].allocError # << >> =>
                   FailureListed(i, inv[i].allocError[1])
            /\ inv[i].anchorError # << >> =>
                   FailureListed(i, inv[i].anchorError[1])

\* reachable: the allocation was confirmed, the storage endpoint answered
\* non-2xx, and the response delivered lists the allocation only and has
\* ipfsData null
C15_PublishFailureUnreported ==
    \E i \in Invocations :
        /\ Done(i)
        /\ ~ConfigurationMissing
        /\ inv[i].receipt = <<"receipt">>
        /\ inv[i].publishError = <<"PinataUploadFailed">>
        /\ inv[i].responses = <<"responseContent">>
        /\ inv[i].responseContent[1] =
               [steps |-> <<[step |-> "executed", detail |-> "receipt"]>>,
                ipfsData |-> << >>,
                executedStrategy |-> inv[i].strategy]

\* the response built by invocation i names no transaction hash, so that it
\* reads the same whichever invocation built it
NoTransactionHash(i) ==
    \A k \in DOMAIN inv[i].responseContent[1].steps :
        inv[i].responseContent[1].steps[k].step \notin {"executed", "anchored"}

\* C16: no two invocations deliver through the callback responses of the
\* same content.
C16_NoIdenticalPayloadTwice ==
    \A i \in Invocations : \A j \in Invocations \ {i} :
        ~(/\ Delivered(i)
          /\ Delivered(j)
          /\ NoTransactionHash(i)
          /\ inv[i].responseContent = inv[j].responseContent)

\* reachable: two messages of different ids, both skipped and both with a
\* failed upload, are each answered with the same response
C16_SameResponseForTwoMessages ==
    /\ MessageId(message[1]) # MessageId(message[2])
    /\ \A i \in Invocations :
           /\ Done(i)
           /\ inv[i].responses = <<"responseContent">>
           /\ inv[i].receipt = <<"null">>
           /\ inv[i].publishError = <<"PinataUploadFailed">>
    /\ inv[1].responseContent = inv[2].responseContent

\* C17: uploadToIPFS fails when PINATA_JWT is not set, and then without
\* sending a request, and fails when the endpoint answers non-2xx (or the
\* request itself fails); whenever it fails, no cid and no URL is returned:
\* ipfsResult stays null, also in the response.
C17_PublishFailure ==
    \A i \in Invocations :
        /\ pinataJwt = "" =>
               /\ "fetch" \notin Range(inv[i].calls)
               /\ AllocationReturned(i) =>
                      inv[i].publishError = <<"PinataJwtNotSet">>
        /\ \A rep \in RepliesTo(i, "fetch") :
               ~rep.ok => inv[i].publishError = <<rep.value>>
        /\ inv[i].publishError # << >> =>
               /\ inv[i].ipfsResult = << >>
               /\ ~PublicationSucceeded(i)
               /\ inv[i].responseContent # << >> =>
                      inv[i].responseContent[1].ipfsData = << >>

\* no PINATA_JWT: the invocation finished without a request to the endpoint
\* and with ipfsData null
C17_Witness ==
    \E i \in Invocations :
        /\ Done(i)
        /\ pinataJwt = ""
        /\ inv[i].publishError = <<"PinataJwtNotSet">>
        /\ "fetch" \notin Range(inv[i].calls)
        /\ inv[i].responses = <<"responseContent">>
        /\ inv[i].responseContent[1].ipfsData = << >>

\* reachable as well: the endpoint answered non-2xx and nothing was returned
C17_Non2xx ==
    \E i \in Invocations :
        /\ Done(i)
        /\ [call |-> "fetch", ok |-> FALSE, value |-> "PinataUploadFailed"]
               \in RepliesTo(i, "fetch")
        /\ inv[i].publishError = <<"PinataUploadFailed">>
        /\ inv[i].ipfsResult = << >>

\* there is no stored strategy, or the stored one fails StrategySchema
StrategyUnusable ==
    \/ yieldStrategies = << >>
    \/ ~yieldStrategies[1].schemaValid

\* C18: when the stored strategy is absent or fails the schema, the execute
\* handler evaluates no condition, reads no balance, submits no allocation
\* and no anchor transaction and uploads nothing: after getMemories it only
\* calls back, with noStrategyContent or errorContent.
C18_UnusableStrategyAborts ==
    \A i \in Invocations :
        StrategyUnusable =>
            /\ inv[i].strategy = << >>
            /\ inv[i].shouldInvest = << >>
            /\ inv[i].totalAmount = << >>
            /\ inv[i].txs = << >>
            /\ inv[i].anchorTxs = << >>
            /\ inv[i].steps = << >>
            /\ Range(inv[i].calls) \subseteq {"getMemories", "callback"}
            /\ (Done(i) /\ inv[i].calls # << >> /\ CollaboratorsAnswered(i)) =>
                   /\ inv[i].calls = <<"getMemories", "callback">>
                   /\ inv[i].responses =
                          <<IF yieldStrategies = << >> THEN "noStrategyContent"
                            ELSE "errorContent">>

\* the stored row fails the schema: the invocation ended after getMemories
\* and one callback with errorContent
C18_Witness ==
    \E i \in Invocations :
        /\ Done(i)
        /\ yieldStrategies # << >>
        /\ ~yieldStrategies[1].schemaValid
        /\ inv[i].calls = <<"getMemories", "callback">>
        /\ inv[i].responses = <<"errorContent">>

\* reachable as well: no stored row, answered with noStrategyContent
C18_NoStrategy ==
    \E i \in Invocations :
        /\ Done(i)
        /\ yieldStrategies = << >>
        /\ inv[i].calls = <<"getMemories", "callback">>
        /\ inv[i].responses = <<"noStrategyContent">>

\* the external calls in the order in which the handler reaches them
CallOrder ==
    <<"getMemories", "totalAssets", "execute", "wait", "fetch",
      "setStrategyReference", "anchorWait", "createMemory", "callback">>

CallRank(call) == CHOOSE k \in DOMAIN CallOrder : CallOrder[k] = call

\* calls of invocation i that were made and have not returned yet
InFlight(i) == Len(inv[i].calls) - Len(inv[i].replies)

\* C19: the calls of one invocation are made one after another in the order
\* balance read, allocation submission, its confirmation, upload, anchor
\* submission, its confirmation (after the condition was evaluated); each
\* call is made only when the one before it has returned or failed, so at
\* most one call of an invocation is in flight.
C19_StepsStrictlySequential ==
    \A i \in Invocations :
        /\ InFlight(i) \in {0, 1}
        /\ \A k \in DOMAIN inv[i].replies :
               inv[i].replies[k].call = inv[i].calls[k]
        /\ \A k \in DOMAIN inv[i].calls : \A n \in DOMAIN inv[i].calls :
               k < n =>
                   \/ CallRank(inv[i].calls[k]) < CallRank(inv[i].calls[n])
                   \/ inv[i].calls[k] = "callback" /\ inv[i].calls[n] = "callback"
        /\ "totalAssets" \in Range(inv[i].calls) => inv[i].shouldInvest = <<TRUE>>
        /\ "execute" \in Range(inv[i].calls) =>
               \E rep \in RepliesTo(i, "totalAssets") : rep.ok
        /\ "wait" \in Range(inv[i].calls) =>
               \E rep \in RepliesTo(i, "execute") : rep.ok
        /\ "fetch" \in Range(inv[i].calls) => AllocationReturned(i)
        /\ "anchorWait" \in Range(inv[i].calls) =>
               \E rep \in RepliesTo(i, "setStrategyReference") : rep.ok

\* every remote step was made: the invocation finished with the calls in
\* the full order and a reply to each
C19_Witness ==
    \E i \in Invocations :
        /\ Done(i)
        /\ inv[i].calls = CallOrder
        /\ Len(inv[i].replies) = Len(CallOrder)

\* C20: after a skipped allocation (condition false or balance zero: null
\* receipt, no transaction) the upload is still attempted, and when it
\* returns a cid setStrategyReference is attempted, before the invocation is
\* done.
C20_SkipDoesNotEndPipeline ==
    \A i \in Invocations :
        inv[i].receipt = <<"null">> =>
            /\ inv[i].txs = << >>
            /\ UploadAttempted(i)
            /\ \A rep \in RepliesTo(i, "fetch") :
                   (rep.ok /\ rep.value # "") => AnchorAttempted(i)
            /\ Done(i) =>
                   /\ inv[i].publishError # << >> \/ PublicationSucceeded(i)
                   /\ (inv[i].ipfsResult # << >> /\ inv[i].ipfsResult[1].cid # "") =>
                          inv[i].anchorReceipt # << >> \/ inv[i].anchorError # << >>

\* the condition was false, the document was uploaded and the anchor
\* transaction confirmed before the invocation was done
C20_Witness ==
    \E i \in Invocations :
        /\ Done(i)
        /\ inv[i].shouldInvest = <<FALSE>>
        /\ inv[i].receipt = <<"null">>
        /\ inv[i].calls = <<"getMemories", "fetch", "setStrategyReference",
                            "anchorWait", "createMemory", "callback">>
        /\ inv[i].anchorReceipt = <<"receipt">>

(***************************************************************************)
(* C21..C29                                                                *)
(***************************************************************************)
\* invocation i is between the call of vault.totalAssets and the
\* confirmation of its allocation transaction
Allocating(i) == inv[i].pc \in {"totalAssets", "execute", "wait"}

\* C21: nothing makes an invocation wait for another one that works on the
\* same vault: while one invocation is allocating, the balance read of any
\* other can return, and every transaction submitted is computed from the
\* balance that its own invocation read.
C21_NoMutualExclusion ==
    \A i \in Invocations : \A j \in Invocations \ {i} :
        /\ (inv[i].pc = "totalAssets" /\ Allocating(j)) =>
               ENABLED TotalAssetsReturn(i)
        /\ \A k \in DOMAIN inv[i].txs :
               DepositedAmount(inv[i].txs[k]) =
                   AmountToDeposit(inv[i].totalAmount[1], PercentageOf(i))

\* two messages of different ids: both invocations read the same balance,
\* both passed the balance check, and both have submitted an allocation of
\* the same amount, neither confirmed yet
C21_Witness ==
    /\ MessageId(message[1]) # MessageId(message[2])
    /\ \A i \in Invocations :
           /\ inv[i].pc \in {"execute", "wait"}
           /\ inv[i].totalAmount = <<1000000>>
           /\ Len(inv[i].txs) = 1
           /\ DepositedAmount(inv[i].txs[1]) = 700000
    /\ inv[1].txs[1].contracts = inv[2].txs[1].contracts

\* what holds in every state of C25: one read per invocation, made after
\* the condition was found true and before the transaction, whose amount is
\* computed from the value read
ReadOnceBeforeAmount(i) ==
    /\ Count(inv[i].calls, "totalAssets") <= 1
    /\ Len(inv[i].totalAmount) <= 1
    /\ inv[i].shouldInvest = <<TRUE>> <=> "totalAssets" \in Range(inv[i].calls)
    /\ inv[i].txs # << >> =>
           /\ inv[i].totalAmount # << >>
           /\ FirstCall(i, "totalAssets") < FirstCall(i, "execute")
           /\ \A k \in DOMAIN inv[i].txs :
                  DepositedAmount(inv[i].txs[k]) =
                      AmountToDeposit(inv[i].totalAmount[1], PercentageOf(i))

\* C25: an invocation whose condition is met reads the vault balance exactly
\* once, after the gate and before the amount is computed; the value it
\* uses is the balance of the vault at the moment its own read returns, and
\* the amount submitted is computed from that value.
C25_BalanceReadLive ==
    [][\A i \in Invocations :
           /\ ReadOnceBeforeAmount(i)'
           /\ (inv[i].totalAmount = << >> /\ inv'[i].totalAmount # << >>) =>
                  inv'[i].totalAmount = <<totalAssets>>]_vars

\* the balance went from 1000000 to 1000 between the two reads: one
\* invocation deposits 700000, the other 700
C25_Witness ==
    /\ inv[1].totalAmount = <<1000000>>
    /\ inv[2].totalAmount = <<1000>>
    /\ Len(inv[1].txs) = 1
    /\ Len(inv[2].txs) = 1
    /\ DepositedAmount(inv[1].txs[1]) = 700000
    /\ DepositedAmount(inv[2].txs[1]) = 700

\* C26: with an empty vault, lending pool or token address no allocation
\* transaction is submitted; an empty vault or pool address is found before
\* the condition is evaluated and before any call to the chain, and ends the
\* allocation step with the error of that check.
C26_NoAllocationWithoutAddresses ==
    \A i \in Invocations :
        /\ (\/ networkConfig.strategyVaultAddress = ""
            \/ networkConfig.lendingPoolAddress = ""
            \/ networkConfig.tokenAddress = "") =>
               /\ inv[i].txs = << >>
               /\ "execute" \notin Range(inv[i].calls)
               /\ inv[i].receipt # <<"receipt">>
        /\ (\/ networkConfig.strategyVaultAddress = ""
            \/ networkConfig.lendingPoolAddress = "") =>
               /\ inv[i].shouldInvest = << >>
               /\ inv[i].totalAmount = << >>
               /\ "totalAssets" \notin Range(inv[i].calls)
               /\ inv[i].strategy # << >> =>
                      inv[i].allocError =
                          <<IF networkConfig.strategyVaultAddress = ""
                            THEN "VaultNotConfigured" ELSE "PoolNotConfigured">>

\* no vault address: the allocation step failed on the check, with no
\* condition evaluated and no call to the chain
C26_Witness ==
    \E i \in Invocations :
        /\ Done(i)
        /\ networkConfig.strategyVaultAddress = ""
        /\ inv[i].allocError = <<"VaultNotConfigured">>
        /\ inv[i].shouldInvest = << >>
        /\ inv[i].txs = << >>
        /\ "totalAssets" \notin Range(inv[i].calls)

\* reachable as well: no token address, found after the balance was read
C26_TokenMissing ==
    \E i \in Invocations :
        /\ networkConfig.tokenAddress = ""
        /\ inv[i].totalAmount # << >>
        /\ inv[i].allocError = <<"TokenNotConfigured">>
        /\ inv[i].txs = << >>

\* invocation i returned at the guard on message.content.processed
StoppedByGuard(i) == Done(i) /\ inv[i].calls = << >>

\* no callback of invocation i failed
CallbackWorked(i) == \A rep \in RepliesTo(i, "callback") : rep.ok

\* C27: an invocation of the execute handler that passes the guard on
\* message.content.processed calls back exactly once, whichever steps
\* succeed or fail, provided the callback does not fail; an invocation
\* stopped by the guard does not call back.
C27_ExactlyOneResponse ==
    \A i \in Invocations :
        /\ CallbackWorked(i) =>
               /\ Len(inv[i].responses) <= 1
               /\ Count(inv[i].calls, "callback") <= 1
        /\ (Done(i) /\ ~StoppedByGuard(i) /\ CallbackWorked(i)) =>
               /\ Len(inv[i].responses) = 1
               /\ Count(inv[i].calls, "callback") = 1
        /\ StoppedByGuard(i) =>
               /\ inv[i].responses = << >>
               /\ ~inv[i].threw

\* one message object handed to the handler twice: one invocation called
\* back once, the other was stopped by the guard and did not
C27_Witness ==
    \E i \in Invocations : \E j \in Invocations \ {i} :
        /\ message[i] = message[j]
        /\ Done(i)
        /\ Len(inv[i].responses) = 1
        /\ Count(inv[i].calls, "callback") = 1
        /\ StoppedByGuard(j)
        /\ inv[j].responses = << >>

\* C28: when every awaited call (strategy fetch, balance read, submission
\* and confirmation, upload, anchor submission and confirmation, record
\* store, callback) returns a result or a failure, every invocation of the
\* handler eventually is done.
C28_EveryInvocationTerminates ==
    \A i \in Invocations : (i \in active) ~> Done(i)

\* an invocation that is not done is waiting for a call or for the timer,
\* and can go on as soon as that returns
C28_OnlyACallCanBlock ==
    \A i \in active :
        ~Done(i) =>
            /\ inv[i].pc = "idle" \/ inv[i].pc = "delay" \/ InFlight(i) = 1
            /\ ENABLED (\/ ExecuteHandler(i) \/ GetMemoriesReturn(i)
                        \/ TotalAssetsReturn(i) \/ ExecuteReturn(i)
                        \/ WaitReturn(i) \/ FetchReturn(i)
                        \/ AnchorSubmitReturn(i) \/ AnchorWaitReturn(i)
                        \/ DelayElapsed(i) \/ CreateMemoryReturn(i)
                        \/ CallbackReturn(i) \/ CatchCallbackReturn(i))

\* the invocation is done after the store of the execution record failed
\* and the outer catch called back: every call made has returned
C28_Witness ==
    \E i \in active :
        /\ Done(i)
        /\ InFlight(i) = 0
        /\ [call |-> "createMemory", ok |-> FALSE, value |-> "StoreFailed"]
               \in RepliesTo(i, "createMemory")
        /\ inv[i].responses = <<"errorContent">>

\* parse invocation p passed both guards and called the model
ReachedModel(p) == "useModel" \in Range(parse[p].calls)

\* C22: of the parse handler invocations running for one non-empty message
\* id, at most one passes the guard and calls the model; the id is in the
\* registry as soon as an invocation is past the guard.
C22_AtMostOnePassesGuard ==
    \A p \in Invocations : \A q \in Invocations \ {p} :
        /\ (/\ MessageId(message[p]) # ""
            /\ MessageId(message[p]) = MessageId(message[q])) =>
               ~(ReachedModel(p) /\ ReachedModel(q))
        /\ (ReachedModel(p) /\ MessageId(message[p]) # "") =>
               MessageId(message[p]) \in processedMessageIds

\* two message objects with the same id: one invocation called the model,
\* the other returned at the guard
C22_Witness ==
    \E p \in Invocations : \E q \in Invocations \ {p} :
        /\ message[p] # message[q]
        /\ MessageId(message[p]) = MessageId(message[q])
        /\ ReachedModel(p)
        /\ parse[q].pc = "done"
        /\ parse[q].calls = << >>

\* the id of the message of parse invocation p is in the registry
Recorded(p) ==
    /\ MessageId(message[p]) # ""
    /\ MessageId(message[p]) \in processedMessageIds

\* C23: in the parse handler the id of the message is in the registry when
\* the model is called; an invocation that starts for an id already in the
\* registry returns without calling the model, the database or the
\* callback, and the validator asked about a message with such an id
\* returns false.
C23_RecordedBeforeModelCall ==
    [][/\ \A p \in Invocations :
              /\ (ReachedModel(p)' /\ MessageId(message[p]) # "") =>
                     MessageId(message[p]) \in processedMessageIds'
              /\ (parse[p].pc = "idle" /\ parse'[p].pc # "idle" /\ Recorded(p)) =>
                     /\ parse'[p].pc = "done"
                     /\ parse'[p].calls = << >>
                     /\ parse'[p].responses = << >>
                     /\ yieldStrategies' = yieldStrategies
       /\ (/\ validOut = << >>
           /\ validOut' # << >>
           /\ MessageId(validOut'[1].message) # ""
           /\ MessageId(validOut'[1].message) \in processedMessageIds) =>
              validOut'[1].parse = FALSE]_vars

\* a second delivery (another object, same id) returned at the registry
\* guard with no call made, and the validator refused it although its text
\* has the keywords
C23_Witness ==
    \E q \in Invocations :
        /\ parse[q].pc = "done"
        /\ parse[q].calls = << >>
        /\ processed[message[q]] # PARSE
        /\ Recorded(q)
        /\ validOut # << >>
        /\ validOut[1].message = message[q]
        /\ validOut[1].text = <<"i", "n", "v", "e", "s", "t", " ", "a", "p", "y">>
        /\ validOut[1].actions = {}
        /\ validOut[1].parse = FALSE


\* parse invocation p marked its message and then failed at the model step
FailedAtModel(p) ==
    /\ parse[p].error # << >>
    /\ parse[p].error[1] \in {"ModelError", "NoJson", "BadJson", "SchemaInvalid"}

\* C24: no step takes an id out of the registry of processed messages; the
\* id of an invocation that failed (the model rejected, or its output held no
\* JSON, unparseable JSON or JSON refused by the schema) stays recorded, and
\* an invocation that starts for that id afterwards returns without
\* processing the message.
C24_RegistryOnlyGrows ==
    [][/\ processedMessageIds \subseteq processedMessageIds'
       /\ \A p \in Invocations :
              (parse'[p].error # << >> /\ MessageId(message[p]) # "") =>
                  MessageId(message[p]) \in processedMessageIds'
       /\ \A p, q \in Invocations :
              (/\ p # q
               /\ FailedAtModel(p)
               /\ MessageId(message[p]) # ""
               /\ MessageId(message[q]) = MessageId(message[p])
               /\ parse[q].pc = "idle"
               /\ parse'[q].pc # "idle") =>
                  /\ parse'[q].pc = "done"
                  /\ parse'[q].calls = << >>
                  /\ parse'[q].responses = << >>]_vars

\* the first delivery failed at the model step and told the user so; the
\* redelivery (another object with the same id) returned at the guard
C24_Witness ==
    \E p, q \in Invocations :
        /\ p # q
        /\ FailedAtModel(p)
        /\ parse[p].pc = "done"
        /\ parse[p].responses = <<"errorContent">>
        /\ message[q] # message[p]
        /\ MessageId(message[q]) = MessageId(message[p])
        /\ MessageId(message[p]) \in processedMessageIds
        /\ parse[q].pc = "done"
        /\ parse[q].calls = << >>


\* C29: no message is accepted by both validators: the parse validator
\* refuses every text that, in lower case, contains 'execute', and the
\* execute validator accepts only such a text.
C29_AtMostOneValidatorAccepts ==
    validOut # << >> =>
        /\ ~(validOut[1].parse /\ validOut[1].execute)
        /\ includes(toLowerCase(validOut[1].text), WordExecute) =>
               ~validOut[1].parse
        /\ validOut[1].execute =>
               includes(toLowerCase(validOut[1].text), WordExecute)

\* a text with the keywords of both actions and a fresh id goes to the
\* execute action alone
C29_Witness ==
    /\ validOut # << >>
    /\ validOut[1].text = <<"e", "x", "e", "c", "u", "t", "e", " ", "i", "n", "v", "e", "s", "t", " ", "a", "p", "y">>
    /\ validOut[1].actions = {}
    /\ MessageId(validOut[1].message) \notin processedMessageIds
    /\ validOut[1].execute
    /\ ~validOut[1].parse

=============================================================================
